---- MODULE Spec2Model ----
(***************************************************************************)
(* A model of teams_chatgpt_bot_captcha.py: main() with load_config, the   *)
(* TeamsBot orchestrator (start / stop), its two login sequences with the  *)
(* CAPTCHA detector, the ProcessManager (signal handlers, PID file) and    *)
(* BotStats.                                                               *)
(*                                                                         *)
(* Line 168 of the source joins the three find_elements calls of           *)
(* detect_captcha with backslash continuations that are followed by blanks  *)
(* on one physical line; the model reads it as the three calls joined by   *)
(* `or`, evaluated left to right with short circuit.                       *)
(***************************************************************************)
EXTENDS Integers, Sequences, FiniteSets, TLC

\* ------------------------------------------------------------------ bounds
\* How many signals (SIGINT / SIGTERM) the environment delivers in one run.
MaxSignals == 1
\* How many times the idle loop's sleep is followed before the model stops counting.
MaxWakes == 2
\* The largest wall-clock reading (in clock units) of the stats model.
MaxTime == 2
\* The largest counter value a stats file holds at start-up.
MaxCount == 1
\* How many increment() calls one run of the stats model makes.
MaxIncrements == 2

\* --------------------------------------------------------- JSON / Python values
\* A JSON value as Python holds it after json.load, tagged with its type.
Str(s) == [type |-> "str", str |-> s, num |-> 0]
Num(n) == [type |-> "num", str |-> "", num |-> n]
Bool(b) == [type |-> "bool", str |-> "", num |-> IF b THEN 1 ELSE 0]
None == [type |-> "null", str |-> "", num |-> 0]

\* Python truthiness, as `not config.get(f)` applies it.
Truthy(v) ==
    CASE v.type = "str" -> v.str # ""
      [] v.type = "num" -> v.num # 0
      [] v.type = "bool" -> v.num = 1
      [] OTHER -> FALSE

\* dict.get(key, default)
Get(d, key, default) == IF key \in DOMAIN d THEN d[key] ELSE default

\* ------------------------------------------------------------ configuration
\* The four credential fields, in the order main() lists them.
CredentialFields == <<"teams_email", "teams_password", "chatgpt_email", "chatgpt_password">>

TunableFields == {"bot_trigger", "check_interval", "headless", "max_retries", "retry_delay"}

\* As DefaultConfig, with the check interval of a busier loop.
DefaultConfigFast ==
    [teams_email |-> Str(""), teams_password |-> Str(""),
     chatgpt_email |-> Str(""), chatgpt_password |-> Str(""),
     bot_trigger |-> Str("@bot"), check_interval |-> Num(1),
     headless |-> Bool(FALSE), max_retries |-> Num(3), retry_delay |-> Num(30)]

\* The skeleton load_config writes when there is no configuration file.
DefaultConfig ==
    [teams_email |-> Str(""), teams_password |-> Str(""),
     chatgpt_email |-> Str(""), chatgpt_password |-> Str(""),
     bot_trigger |-> Str("@bot"), check_interval |-> Num(10),
     headless |-> Bool(FALSE), max_retries |-> Num(3), retry_delay |-> Num(30)]

\* What the operator can have put in a credential field: nothing (key absent),
\* the empty string of the skeleton, or a value.
CredentialInputs == {"absent", "empty", "filled"}

\* The tunables of a configuration file: the skeleton's, none at all, the
\* skeleton's with a check_interval that is not a number, or the skeleton's
\* with more retries and a shorter delay asked for.
TunableInputs == {"defaults", "omitted", "bad_interval", "more_retries"}

Range(seq) == {seq[i] : i \in DOMAIN seq}

\* The configuration file's content for one choice of inputs.
ConfigOf(cred, tun) ==
    LET keys == {f \in Range(CredentialFields) : cred[f] # "absent"}
                \cup (IF tun = "omitted" THEN {} ELSE TunableFields)
    IN [k \in keys |->
          IF k \in Range(CredentialFields)
          THEN (IF cred[k] = "empty" THEN Str("") ELSE Str(k))
          ELSE IF k = "check_interval" /\ tun = "bad_interval" THEN Str("ten")
          ELSE IF k = "max_retries" /\ tun = "more_retries" THEN Num(5)
          ELSE IF k = "retry_delay" /\ tun = "more_retries" THEN Num(1)
          ELSE DefaultConfig[k]]

NoFile == [exists |-> FALSE, data |-> <<>>]
File(d) == [exists |-> TRUE, data |-> d]

\* ----------------------------------------------------------------- browser
Sites == {"teams", "chatgpt"}

\* The three CAPTCHA markers, in the order detect_captcha looks for them.
Markers == <<"iframe[src*='recaptcha']", "iframe[src*='hcaptcha']", "div.g-recaptcha">>

\* A page as far as the detector can tell pages apart: the markers it holds and
\* whether it holds other content (other frames, forms, divisions).
Pages == [markers : SUBSET Range(Markers), other : BOOLEAN]
BlankPage == [markers |-> {}, other |-> FALSE]

\* ------------------------------------------------------------------- stats
\* Sub-second clock units per second: isoformat() prints the fraction only
\* when it is not zero.
UnitsPerSecond == 2

Counters == {"messages_processed", "responses_sent", "errors"}

\* datetime.isoformat(): seconds, then the fraction unless it is zero.
isoformat(t) ==
    IF t % UnitsPerSecond = 0
    THEN <<t \div UnitsPerSecond>>
    ELSE <<t \div UnitsPerSecond, t % UnitsPerSecond>>

\* datetime.fromisoformat()
fromisoformat(s) ==
    IF Len(s) = 1 THEN s[1] * UnitsPerSecond ELSE s[1] * UnitsPerSecond + s[2]

\* last_activity before the first increment: None
NoActivity == <<>>

VARIABLES
    pc,             \* where main() is
    step,           \* where the running login sequence is
    configFile,     \* bot_config.json
    configAtStart,  \* bot_config.json as the process found it
    config,         \* the dictionary load_config returned
    reported,       \* the field names main() printed as missing
    constructed,    \* TeamsBot(config) has been constructed
    teams_driver,   \* TeamsBot.teams_driver: "None" or the session's name
    chatgpt_driver, \* TeamsBot.chatgpt_driver
    browser,        \* each site's browser session: none, open, closed, close_failed
    page,           \* the page the session in login shows
    lastCall,       \* the latest detect_captcha call: what it saw and returned
    detected,       \* per site, the latest detector result of its login
    waited,         \* per site, the login went into the CAPTCHA wait
    entered,        \* per site, the credentials typed so far
    loggedIn,       \* per site, the post-login marker was found
    failedAt,       \* per site, the login step that raised ("none" if none did)
    teams_login,    \* start()'s local: "unset", "True", "False"
    chatgpt_login,
    is_running,     \* TeamsBot.is_running
    running,        \* ProcessManager.running
    handlers,       \* the signal handlers are installed
    signals,        \* signals delivered so far
    wakes,          \* idle-loop wakes so far
    pidFile,        \* bot.pid
    pidWritten,     \* write_pid wrote the file in this run
    stopCalls,      \* how many times stop() was entered
    crashLogged,    \* main() logged "Bot crashed"
    stats,          \* BotStats.stats
    statsFile,      \* bot_stats.json
    now,            \* the wall clock datetime.now() reads
    increments,     \* increment() calls so far
    lastInc,        \* the latest increment() call: key, and the record before it
    attempts,       \* per site, how many times its login was begun
    created,        \* per site, how many browser sessions were started
    signalInLogin,  \* a signal was delivered while a login was running
    otherProcess,   \* what the process table holds under the other process id
    already,        \* what is_already_running did: "unset", "True", "False", "raised"
    fileOp          \* the latest stats or PID file operation, and the error it met

vars == <<pc, step, configFile, configAtStart, config, reported, constructed, teams_driver,
          chatgpt_driver, browser, page, lastCall, detected, waited, entered,
          loggedIn, failedAt, teams_login, chatgpt_login, is_running, running, handlers, signals,
          wakes, pidFile, pidWritten, stopCalls, crashLogged, stats, statsFile,
          now, increments, lastInc, attempts, created, signalInLogin, otherProcess,
          already, fileOp>>

botVars == <<teams_driver, chatgpt_driver, browser, is_running>>
loginVars == <<step, page, lastCall, detected, waited, entered, loggedIn, failedAt>>
guardVars == <<running, handlers, pidFile, pidWritten>>
statsVars == <<stats, statsFile, now, increments, lastInc>>
configVars == <<configFile, configAtStart, config, reported>>
traceVars == <<attempts, created, signalInLogin>>
procVars == <<otherProcess, already, fileOp>>

\* The process id os.getpid() returns, and one a stale PID file can hold.
OwnPid == "own pid"
OtherPid == "other pid"

NoCall == [site |-> "none", markers |-> {}, raised |-> FALSE, result |-> FALSE]
NoInc == [key |-> "none", before |-> <<>>, at |-> 0]
NoOp == [op |-> "none", error |-> "none"]
NoStats == <<>>

\* The part of the initial state that does not depend on the inputs.
InitCommon ==
    /\ step = "none"
    /\ config = <<>>
    /\ reported = <<>>
    /\ constructed = FALSE
    /\ teams_driver = "None"
    /\ chatgpt_driver = "None"
    /\ browser = [s \in Sites |-> "none"]
    /\ page = BlankPage
    /\ lastCall = NoCall
    /\ detected = [s \in Sites |-> "none"]
    /\ waited = [s \in Sites |-> FALSE]
    /\ entered = [s \in Sites |-> <<>>]
    /\ loggedIn = [s \in Sites |-> FALSE]
    /\ failedAt = [s \in Sites |-> "none"]
    /\ teams_login = "unset"
    /\ chatgpt_login = "unset"
    /\ is_running = FALSE
    /\ running = FALSE
    /\ handlers = FALSE
    /\ signals = 0
    /\ wakes = 0
    /\ pidWritten = FALSE
    /\ stopCalls = 0
    /\ crashLogged = FALSE
    /\ stats = NoStats
    /\ increments = 0
    /\ lastInc = NoInc
    /\ attempts = [s \in Sites |-> 0]
    /\ created = [s \in Sites |-> 0]
    /\ signalInLogin = FALSE
    /\ already = "unset"
    /\ fileOp = NoOp

\* The process starts main() with whatever configuration file, PID file the
\* directory holds; no stats file, the clock at 0.
Init ==
    /\ InitCommon
    /\ pc = "load_config"
    /\ \/ configFile = NoFile
       \/ \E cred \in [Range(CredentialFields) -> CredentialInputs], tun \in TunableInputs :
             configFile = File(ConfigOf(cred, tun))
    /\ configAtStart = configFile
    /\ pidFile \in {[exists |-> FALSE, pid |-> OtherPid, form |-> "digits"],
                    [exists |-> TRUE, pid |-> OtherPid, form |-> "digits"]}
    /\ statsFile = NoFile
    /\ now = 0
    /\ otherProcess = "none"

\* ------------------------------------------------------------- load_config
\* load_config(): the file's dictionary, or the skeleton, written to the file.
LoadConfig ==
    /\ pc = "load_config"
    /\ IF configFile.exists
       THEN /\ config' = configFile.data
            /\ UNCHANGED configFile
       ELSE /\ config' = DefaultConfig
            /\ configFile' = File(DefaultConfig)
    /\ pc' = "check_missing"
    /\ UNCHANGED <<configAtStart, reported, constructed, botVars, loginVars, guardVars, statsVars,
                   teams_login, chatgpt_login, signals, wakes, stopCalls, crashLogged>>
    /\ UNCHANGED <<traceVars, procVars>>

\* As Missing, testing only whether the key is there.
MissingKeysOnly(c) == SelectSeq(CredentialFields, LAMBDA f : f \notin DOMAIN c)

\* main(): the credential fields that are absent or falsy, in list order.
Missing(c) == SelectSeq(CredentialFields, LAMBDA f : ~Truthy(Get(c, f, None)))

\* main(): print the missing fields and return, or go on to construct the bot.
CheckMissing ==
    /\ pc = "check_missing"
    /\ IF Missing(config) # <<>>
       THEN /\ reported' = Missing(config)
            /\ pc' = "done"
       ELSE /\ UNCHANGED reported
            /\ pc' = "construct"
    /\ UNCHANGED <<configFile, configAtStart, config, constructed, botVars, loginVars,
                   guardVars, statsVars, teams_login, chatgpt_login, signals, wakes, stopCalls,
                   crashLogged>>
    /\ UNCHANGED <<traceVars, procVars>>

\* ---------------------------------------------------------------- BotStats
\* dict.update(other)
Update(d, other) ==
    [k \in DOMAIN d \cup DOMAIN other |-> IF k \in DOMAIN other THEN other[k] ELSE d[k]]

\* BotStats.load_stats(): merge the file's dictionary over the defaults; a file
\* that cannot be read or parsed (readable = FALSE) leaves them as they are.
load_stats(st, file, readable) ==
    IF file.exists /\ readable THEN Update(st, file.data) ELSE st

\* BotStats.__init__(): the defaults, start_time the clock's reading, then load_stats.
BotStats(t, file, readable) ==
    load_stats([start_time |-> isoformat(t), messages_processed |-> 0,
                responses_sent |-> 0, errors |-> 0, last_activity |-> NoActivity,
                uptime |-> 0],
               file, readable)

\* BotStats.save_stats(), the record: uptime recomputed from start_time.
WithUptime(st, t) == [st EXCEPT !["uptime"] = t - fromisoformat(st["start_time"])]

\* BotStats.save_stats(), the file: rewritten whole, or left alone when the
\* write fails.
save_stats(st, file, writable) == IF writable THEN File(st) ELSE file

\* As increment, with last_activity left as it was.
increment_unstamped(st, key, t) ==
    WithUptime([k \in DOMAIN st \cup {key} |->
                  IF k = key THEN Get(st, key, 0) + 1 ELSE st[k]], t)

\* BotStats.increment(key), the record: the counter plus one (from 0 when the
\* key is new), last_activity the clock's reading, then save_stats' uptime.
increment(st, key, t) ==
    LET counted == [k \in DOMAIN st \cup {key} |->
                      IF k = key THEN Get(st, key, 0) + 1 ELSE st[k]]
        stamped == [counted EXCEPT !["last_activity"] = isoformat(t)]
    IN WithUptime(stamped, t)

\* ---------------------------------------------------------- ProcessManager
\* ProcessManager.write_pid(): the file holds str(os.getpid()), digits only,
\* unless the write fails.
write_pid(file, writable) ==
    IF writable THEN [exists |-> TRUE, pid |-> OwnPid, form |-> "digits"] ELSE file

\* ProcessManager.cleanup_pid(): the file is removed if it exists, unless the
\* removal fails.  Nothing in the program calls it.
cleanup_pid(file, removable) ==
    IF file.exists /\ removable THEN [file EXCEPT !.exists = FALSE] ELSE file

\* The exception classes the program's handlers can meet, each with its base
\* class: the built-in ones of open(), read(), int() and json, psutil's and
\* selenium's.
Superclass ==
    [PermissionError |-> "OSError", OSError |-> "Exception",
     JSONDecodeError |-> "ValueError", UnicodeDecodeError |-> "ValueError",
     ValueError |-> "Exception", TypeError |-> "Exception",
     ZombieProcess |-> "NoSuchProcess", NoSuchProcess |-> "Error",
     AccessDenied |-> "Error", Error |-> "Exception",
     WebDriverException |-> "Exception",
     Exception |-> "BaseException"]

\* What `except class` tests: the error is of the class or of a subclass.
RECURSIVE IsInstance(_, _)
IsInstance(error, class) ==
    \/ error = class
    \/ error \in DOMAIN Superclass /\ IsInstance(Superclass[error], class)

\* As Swallowed, with `except OSError` for the handler.
SwallowedOSError(error) == error = "none" \/ IsInstance(error, "OSError")

\* `except Exception as e: logger.warning(...)` around a file operation: whether
\* the error it met is handled there.  "none": nothing was raised.
Swallowed(error) == error = "none" \/ IsInstance(error, "Exception")

\* What is left of a file operation that met the error: "returned", or "raised"
\* when the exception leaves it.
Outcome(error) == IF Swallowed(error) THEN "returned" ELSE "raised"

\* The text forms a PID file can have: digits, digits and a newline, text that
\* is no number, nothing.
PidForms == {"digits", "padded", "text", "empty"}

\* int(f.read().strip()): the error it raises on the file's text.
IntError(file) == IF file.form \in {"digits", "padded"} THEN "none" ELSE "ValueError"

\* What the process table holds under a process id: "none" (no such process),
\* "zombie", "denied" (its command line may not be read), "bot" (its command
\* line contains 'teams_chatgpt_bot'), "other" (it does not).  The process
\* itself runs teams_chatgpt_bot_captcha.py.
ProcessKinds == {"none", "zombie", "denied", "bot", "other"}
ProcessOf(pid, other) == IF pid = OwnPid THEN "bot" ELSE other

\* psutil.Process(pid) and process.cmdline(): the error they raise.
ProcessError(kind) ==
    CASE kind = "none" -> "NoSuchProcess"
      [] kind = "zombie" -> "ZombieProcess"
      [] kind = "denied" -> "AccessDenied"
      [] OTHER -> "none"

\* As is_already_running, without the look at the command line: any live
\* process under the recorded id counts.
is_already_running_any(file, openError, other) ==
    IF file.exists /\ openError = "none" /\ IntError(file) = "none"
                   /\ ProcessOf(file.pid, other) \in {"bot", "other", "denied"}
    THEN "True" ELSE "False"

\* ProcessManager.is_already_running(): "True", "False", or "raised" when an
\* exception leaves it.  openError is what open() or read() raised.
is_already_running(file, openError, other) ==
    LET kind == ProcessOf(file.pid, other)
        outer == IF openError # "none" THEN openError ELSE IntError(file)
    IN IF ~file.exists THEN "False"
       ELSE IF outer # "none"
            THEN (IF IsInstance(outer, "Exception") THEN "False" ELSE "raised")
       ELSE IF ProcessError(kind) # "none"
            THEN (IF IsInstance(ProcessError(kind), "NoSuchProcess") THEN "False"
                  ELSE IF IsInstance(ProcessError(kind), "Exception") THEN "False"
                  ELSE "raised")
       ELSE IF kind = "bot" THEN "True" ELSE "False"

\* As signal_handler, clearing the bot's flag as well.
signal_handler_both(flags) == [running |-> FALSE, is_running |-> FALSE]

\* signal_handler(signum, frame), the two flags: `self.running = False`, self
\* being the ProcessManager.
signal_handler(flags) == [flags EXCEPT !.running = FALSE]

\* signal_handler(signum, frame): SIGINT or SIGTERM, once the handlers are
\* installed and while main() runs.
SignalHandler ==
    /\ handlers
    /\ pc \notin {"done", "raised"}
    /\ signals < MaxSignals
    /\ signals' = signals + 1
    /\ LET flags == signal_handler([running |-> running, is_running |-> is_running])
       IN running' = flags.running /\ is_running' = flags.is_running
    /\ signalInLogin' = (signalInLogin \/ pc \in {"login_to_teams", "login_to_chatgpt"})
    /\ UNCHANGED <<pc, configVars, constructed, teams_driver, chatgpt_driver, browser,
                   loginVars, handlers, pidFile, pidWritten, statsVars, teams_login,
                   chatgpt_login, wakes, stopCalls, crashLogged>>
    /\ UNCHANGED <<attempts, created, procVars>>

\* ---------------------------------------------------------------- TeamsBot
\* TeamsBot.__init__(config): no sessions, not running, BotStats(),
\* ProcessManager() (running, handlers installed, PID file written).
ConstructBot ==
    /\ pc = "construct"
    /\ \E readable \in BOOLEAN, writable \in BOOLEAN :
          /\ stats' = BotStats(now, statsFile, readable)
          /\ pidFile' = write_pid(pidFile, writable)
          /\ pidWritten' = writable
    /\ constructed' = TRUE
    /\ teams_driver' = "None"
    /\ chatgpt_driver' = "None"
    /\ is_running' = FALSE
    /\ running' = TRUE
    /\ handlers' = TRUE
    /\ pc' = "start"
    /\ UNCHANGED <<configVars, browser, loginVars, statsFile, now, increments, lastInc,
                   teams_login, chatgpt_login, signals, wakes, stopCalls, crashLogged>>
    /\ UNCHANGED <<traceVars, procVars>>

\* TeamsBot.detect_captcha(driver), from call i on: the three find_elements
\* calls in order; the call numbered failAt raises (0: none does), and the
\* exception is swallowed into "no CAPTCHA".
RECURSIVE Scan(_, _, _)
Scan(pg, failAt, i) ==
    IF i > Len(Markers) THEN FALSE
    ELSE IF i = failAt THEN FALSE
    ELSE IF Markers[i] \in pg.markers THEN TRUE
    ELSE Scan(pg, failAt, i + 1)

\* As PassedOver, with no handler in detect_captcha.
PassedOverNothing(error) == FALSE

\* detect_captcha's `except Exception: pass`: whether the error a find_elements
\* call raised is handled there; `return False` follows.
PassedOver(error) == IsInstance(error, "Exception")

\* As detect_captcha, without the look for div.g-recaptcha.
detect_captcha_frames(pg, failAt) ==
    Scan([pg EXCEPT !.markers = @ \ {"div.g-recaptcha"}], IF failAt = 3 THEN 0 ELSE failAt, 1)

detect_captcha(pg, failAt) == Scan(pg, failAt, 1)

\* Whether that call of detect_captcha ran into the raising find_elements.
Raised(pg, failAt) ==
    /\ failAt # 0
    /\ \A j \in 1..(failAt - 1) : Markers[j] \notin pg.markers

LoginPc(s) == IF s = "teams" THEN "login_to_teams" ELSE "login_to_chatgpt"

\* The first step after the CAPTCHA check: the e-mail input (Teams), the
\* "Log in" button (ChatGPT).
AfterCaptcha(s) == IF s = "teams" THEN "email" ELSE "login_button"

\* As AfterDetect, going on whatever the detector said.
AfterDetectNoWait(s, result) == AfterCaptcha(s)

\* As AfterDetect, with the wait given up at its first poll.
AfterDetectTimeout(s, result) ==
    IF result /\ step # "captcha_wait" THEN "captcha_wait" ELSE AfterCaptcha(s)

\* `if detect_captcha: while detect_captcha: sleep(5)`: where a detector
\* result sends the sequence.
AfterDetect(s, result) == IF result THEN "captcha_wait" ELSE AfterCaptcha(s)

\* The steps that wait for or find one element and act on it, and what follows each.
ElementSteps(s) ==
    IF s = "teams"
    THEN {"email", "next", "password", "signin"}
    ELSE {"login_button", "email", "continue_email", "password", "continue_password"}

NextStep(s, st) ==
    IF s = "teams"
    THEN CASE st = "email" -> "next"
           [] st = "next" -> "password"
           [] st = "password" -> "signin"
           [] st = "signin" -> "stay_signed_in"
    ELSE CASE st = "login_button" -> "email"
           [] st = "email" -> "continue_email"
           [] st = "continue_email" -> "password"
           [] st = "password" -> "continue_password"
           [] st = "continue_password" -> "marker"

\* send_keys(self.config[...]): what a step types, if it types.
Typed(s, st) ==
    IF st \in {"email", "password"} THEN <<config[s \o "_" \o st]>> ELSE <<>>

\* `return True` / `return False` of a login: start()'s local gets the value.
Return(s, value) ==
    /\ step' = "none"
    /\ IF s = "teams"
       THEN /\ teams_login' = value
            /\ pc' = "teams_returned"
            /\ UNCHANGED chatgpt_login
       ELSE /\ chatgpt_login' = value
            /\ pc' = "chatgpt_returned"
            /\ UNCHANGED teams_login
    /\ UNCHANGED crashLogged

\* As Except, with no handler in the login: the exception leaves the login and
\* start(), and main() logs the crash.
ExceptUncaught(s) ==
    /\ failedAt' = [failedAt EXCEPT ![s] = step]
    /\ step' = "none"
    /\ pc' = "stop"
    /\ crashLogged' = TRUE
    /\ UNCHANGED <<teams_login, chatgpt_login>>

\* `except Exception as e: ... return False`: a step of the login raised.
Except(s) ==
    /\ failedAt' = [failedAt EXCEPT ![s] = step]
    /\ Return(s, "False")

\* self.<site>_driver = self.setup_driver(): the session is created and
\* configured ("ok"); webdriver.Chrome raises and nothing is created
\* ("no_browser"); or the session is created and set_page_load_timeout or
\* implicitly_wait raises, so that the handle is never assigned ("unassigned").
SetupDriver(s) ==
    /\ pc = LoginPc(s)
    /\ step = "setup_driver"
    /\ \E outcome \in {"ok", "no_browser", "unassigned"} :
          /\ browser' = IF outcome = "no_browser" THEN browser
                        ELSE [browser EXCEPT ![s] = "open"]
          /\ created' = IF outcome = "no_browser" THEN created
                        ELSE [created EXCEPT ![s] = @ + 1]
          /\ teams_driver' = IF outcome = "ok" /\ s = "teams" THEN s ELSE teams_driver
          /\ chatgpt_driver' = IF outcome = "ok" /\ s = "chatgpt" THEN s ELSE chatgpt_driver
          /\ IF outcome = "ok"
             THEN /\ step' = "get"
                  /\ UNCHANGED <<pc, teams_login, chatgpt_login, crashLogged, failedAt>>
             ELSE Except(s)
    /\ UNCHANGED <<configVars, constructed, is_running, page, lastCall, detected, waited, entered,
                   loggedIn, guardVars, statsVars, signals, wakes, stopCalls>>
    /\ UNCHANGED <<attempts, signalInLogin, procVars>>

\* driver.get(url): the page loads, with or without CAPTCHA markers, or the
\* navigation raises.
Navigate(s) ==
    /\ pc = LoginPc(s)
    /\ step = "get"
    /\ \/ /\ page' \in Pages
          /\ step' = "detect_captcha"
          /\ UNCHANGED <<pc, teams_login, chatgpt_login, crashLogged, failedAt>>
       \/ /\ Except(s)
          /\ UNCHANGED page
    /\ UNCHANGED <<configVars, constructed, botVars, lastCall, detected, waited, entered,
                   loggedIn, guardVars, statsVars, signals, wakes, stopCalls>>
    /\ UNCHANGED <<traceVars, procVars>>

\* One call of detect_captcha in a login: `if self.detect_captcha(driver)`
\* (step detect_captcha) and `while self.detect_captcha(driver): sleep(5)`
\* (step captcha_wait).
DetectCall(s, at) ==
    /\ pc = LoginPc(s)
    /\ step = at
    /\ \E failAt \in 0..Len(Markers) :
          LET result == detect_captcha(page, failAt) IN
          IF Raised(page, failAt) /\ ~PassedOver("WebDriverException")
          THEN /\ lastCall' = [site |-> s, markers |-> page.markers,
                               raised |-> TRUE, result |-> FALSE]
               /\ Except(s)
               /\ UNCHANGED <<detected, waited>>
          ELSE /\ lastCall' = [site |-> s, markers |-> page.markers,
                               raised |-> Raised(page, failAt), result |-> result]
               /\ detected' = [detected EXCEPT ![s] = IF result THEN "captcha" ELSE "clear"]
               /\ step' = AfterDetect(s, result)
               /\ waited' = [waited EXCEPT ![s] = @ \/ AfterDetect(s, result) = "captcha_wait"]
               /\ UNCHANGED <<pc, failedAt, teams_login, chatgpt_login, crashLogged>>
    /\ UNCHANGED <<configVars, constructed, botVars, page, entered, loggedIn,
                   guardVars, statsVars, signals, wakes, stopCalls>>
    /\ UNCHANGED <<traceVars, procVars>>

DetectFirst(s) == DetectCall(s, "detect_captcha")

CaptchaPoll(s) == DetectCall(s, "captcha_wait")

\* The page of the session in login changes while the CAPTCHA check runs: a
\* challenge appears, or a person solves it.
PageChange ==
    /\ pc \in {"login_to_teams", "login_to_chatgpt"}
    /\ step \in {"detect_captcha", "captcha_wait"}
    /\ page' \in Pages \ {page}
    /\ UNCHANGED <<pc, step, configVars, constructed, botVars, lastCall, detected, waited, entered,
                   loggedIn, failedAt, guardVars, statsVars, teams_login, chatgpt_login,
                   signals, wakes, stopCalls, crashLogged>>
    /\ UNCHANGED <<traceVars, procVars>>

\* WebDriverWait(...).until(...) or find_element(...), then clear / send_keys /
\* click: the element is there and the step is done, or the step raises.
ElementStep(s) ==
    /\ pc = LoginPc(s)
    /\ step \in ElementSteps(s)
    /\ \/ /\ entered' = [entered EXCEPT ![s] = @ \o Typed(s, step)]
          /\ step' = NextStep(s, step)
          /\ UNCHANGED <<pc, teams_login, chatgpt_login, crashLogged, failedAt>>
       \/ /\ Except(s)
          /\ UNCHANGED entered
    /\ UNCHANGED <<configVars, constructed, botVars, page, lastCall, detected, waited,
                   loggedIn, guardVars, statsVars, signals, wakes, stopCalls>>
    /\ UNCHANGED <<traceVars, procVars>>

\* Teams only: the "stay signed in" control is clicked, or the wait times out
\* (TimeoutException, passed over), or the wait or the click raises otherwise.
StaySignedIn ==
    /\ pc = "login_to_teams"
    /\ step = "stay_signed_in"
    /\ \/ /\ \E outcome \in {"clicked", "timeout"} : step' = "marker"
          /\ UNCHANGED <<pc, teams_login, chatgpt_login, crashLogged, failedAt>>
       \/ Except("teams")
    /\ UNCHANGED <<configVars, constructed, botVars, page, lastCall, detected, waited, entered,
                   loggedIn, guardVars, statsVars, signals, wakes, stopCalls>>
    /\ UNCHANGED <<traceVars, procVars>>

\* What the wait for the post-login marker makes the login return.
MarkerResult(found) == IF found THEN "True" ELSE "False"

\* The wait for the post-login marker: found, and the login returns True, or
\* timed out, and it returns False through the handler.
Marker(s) ==
    /\ pc = LoginPc(s)
    /\ step = "marker"
    /\ \E found \in BOOLEAN :
          /\ loggedIn' = [loggedIn EXCEPT ![s] = found]
          /\ IF MarkerResult(found) = "True"
             THEN /\ Return(s, "True")
                  /\ UNCHANGED failedAt
             ELSE Except(s)
    /\ UNCHANGED <<configVars, constructed, botVars, page, lastCall, detected, waited, entered,
                   guardVars, statsVars, signals, wakes, stopCalls>>
    /\ UNCHANGED <<traceVars, procVars>>

login_to_teams ==
    \/ SetupDriver("teams")
    \/ Navigate("teams")
    \/ DetectFirst("teams")
    \/ CaptchaPoll("teams")
    \/ ElementStep("teams")
    \/ StaySignedIn
    \/ Marker("teams")

login_to_chatgpt ==
    \/ SetupDriver("chatgpt")
    \/ Navigate("chatgpt")
    \/ DetectFirst("chatgpt")
    \/ CaptchaPoll("chatgpt")
    \/ ElementStep("chatgpt")
    \/ Marker("chatgpt")

\* --------------------------------------------------------- TeamsBot.start
\* start(): `teams_login = await self.login_to_teams()`
StartTeamsLogin ==
    /\ pc = "start"
    /\ pc' = "login_to_teams"
    /\ step' = "setup_driver"
    /\ attempts' = [attempts EXCEPT !["teams"] = @ + 1]
    /\ UNCHANGED <<configVars, constructed, botVars, page, lastCall, detected, waited, entered,
                   loggedIn, failedAt, guardVars, statsVars, teams_login, chatgpt_login,
                   signals, wakes, stopCalls, crashLogged>>
    /\ UNCHANGED <<created, signalInLogin, procVars>>

\* As AfterFailedLogin, with the login begun again from start().
AfterFailedLoginRetry == "start"

\* start(): where `return` after a failed login leads: out of start(), to
\* main()'s finally clause.  No retry, whatever max_retries and retry_delay say.
AfterFailedLogin == "stop"

\* As ReturnsEarly, with the test of the Teams login's result left out.
ReturnsEarlyNever(login) == FALSE

\* start(): `if not teams_login:`
ReturnsEarly(login) == login = "False"

\* start(): `if not teams_login: return`, else the ChatGPT login begins.
AfterTeamsLogin ==
    /\ pc = "teams_returned"
    /\ IF ReturnsEarly(teams_login)
       THEN /\ pc' = AfterFailedLogin
            /\ UNCHANGED <<step, attempts>>
       ELSE /\ pc' = "login_to_chatgpt"
            /\ step' = "setup_driver"
            /\ attempts' = [attempts EXCEPT !["chatgpt"] = @ + 1]
    /\ UNCHANGED <<configVars, constructed, botVars, page, lastCall, detected, waited, entered,
                   loggedIn, failedAt, guardVars, statsVars, teams_login, chatgpt_login,
                   signals, wakes, stopCalls, crashLogged>>
    /\ UNCHANGED <<created, signalInLogin, procVars>>

\* As Proceeds, with the test of the login's result left out.
ProceedsAlways(login) == TRUE

\* start(): whether `if not chatgpt_login: return` lets the bot go on.
Proceeds(login) == login # "False"

\* start(): `if not chatgpt_login: return`, else is_running = True and the
\* idle loop is entered.
AfterChatgptLogin ==
    /\ pc = "chatgpt_returned"
    /\ IF Proceeds(chatgpt_login)
       THEN /\ is_running' = TRUE
            /\ pc' = "idle"
       ELSE /\ pc' = AfterFailedLogin
            /\ UNCHANGED is_running
    /\ UNCHANGED <<configVars, constructed, teams_driver, chatgpt_driver, browser,
                   loginVars, guardVars, statsVars, teams_login, chatgpt_login, signals,
                   wakes, stopCalls, crashLogged>>
    /\ UNCHANGED <<traceVars, procVars>>

\* As AfterCrash, with no try around start(): the exception leaves main().
AfterCrashUnhandled == "raised"

\* main(): where an exception of start() leads: `except Exception` logs it and
\* the finally clause follows.
AfterCrash == "stop"

\* The flag the idle loop tests: `while self.is_running`.
LoopFlag == is_running

\* start(): one turn of `while self.is_running: await asyncio.sleep(check_interval)`.
\* The flag is false: start() returns.  The interval is no number: asyncio.sleep
\* raises, main() logs the crash and goes to its finally clause.  Otherwise the
\* sleep ends and the loop tests the flag again.
IdleLoop ==
    /\ pc = "idle"
    /\ IF ~LoopFlag
       THEN /\ pc' = "stop"
            /\ UNCHANGED <<wakes, crashLogged>>
       ELSE IF Get(config, "check_interval", Num(10)).type # "num"
       THEN /\ pc' = AfterCrash
            /\ crashLogged' = TRUE
            /\ UNCHANGED wakes
       ELSE /\ wakes < MaxWakes
            /\ wakes' = wakes + 1
            /\ UNCHANGED <<pc, crashLogged>>
    /\ UNCHANGED <<configVars, constructed, botVars, loginVars, guardVars, statsVars,
                   teams_login, chatgpt_login, signals, stopCalls>>
    /\ UNCHANGED <<traceVars, procVars>>

\* ---------------------------------------------------------- TeamsBot.stop
\* driver.quit(): the session is closed, or quit raises.
Quit(b, s, outcome) ==
    [b EXCEPT ![s] = IF outcome = "ok" THEN "closed" ELSE "close_failed"]

\* stop(), the sessions: the Teams session is quit if its handle is set, then
\* the ChatGPT session if its handle is set; an exception of the first quit
\* ends stop() before the second.
StopBrowsers(tq, cq) ==
    LET afterTeams == IF teams_driver # "None" THEN Quit(browser, "teams", tq) ELSE browser
        teamsRaised == teams_driver # "None" /\ tq = "raise"
    IN IF ~teamsRaised /\ chatgpt_driver # "None"
       THEN Quit(afterTeams, "chatgpt", cq)
       ELSE afterTeams

\* Whether stop() ends with an exception.
StopRaises(tq, cq) ==
    \/ teams_driver # "None" /\ tq = "raise"
    \/ chatgpt_driver # "None" /\ cq = "raise"

\* main()'s finally clause: `await bot.stop()`: is_running = False, the
\* sessions are quit; an exception of stop() leaves main().
Stop ==
    /\ pc = "stop"
    /\ stopCalls' = stopCalls + 1
    /\ is_running' = FALSE
    /\ \E tq \in {"ok", "raise"}, cq \in {"ok", "raise"} :
          /\ browser' = StopBrowsers(tq, cq)
          /\ pc' = IF StopRaises(tq, cq) THEN "raised" ELSE "done"
    /\ UNCHANGED <<configVars, constructed, teams_driver, chatgpt_driver, loginVars,
                   guardVars, statsVars, teams_login, chatgpt_login, signals, wakes,
                   crashLogged>>
    /\ UNCHANGED <<traceVars, procVars>>

\* ------------------------------------------------- BotStats, on its own
\* The keys increment() is called with: the three counters and a key the
\* record does not hold yet.
IncrementKeys == Counters \cup {"captchas"}

\* A stats file an earlier run left: its counters, its start time and its last
\* activity, both earlier than the clock reads now.
StatsFiles(t) ==
    {[start_time |-> isoformat(t0), messages_processed |-> m, responses_sent |-> r,
      errors |-> e, last_activity |-> la, uptime |-> 0] :
        t0 \in 0..(t - 1), m \in 0..MaxCount, r \in 0..MaxCount, e \in 0..MaxCount,
        la \in {NoActivity} \cup {isoformat(t1) : t1 \in 0..(t - 1)}}

\* A process about to construct BotStats, with or without a stats file.
StatsInit ==
    /\ InitCommon
    /\ pc = "stats_new"
    /\ configFile = NoFile
    /\ configAtStart = NoFile
    /\ pidFile = [exists |-> FALSE, pid |-> OtherPid, form |-> "digits"]
    /\ now = 1
    /\ otherProcess = "none"
    /\ \/ statsFile = NoFile
       \/ \E d \in StatsFiles(now) : statsFile = File(d)

\* stats = BotStats()
NewBotStats ==
    /\ pc = "stats_new"
    /\ \E readable \in BOOLEAN : stats' = BotStats(now, statsFile, readable)
    /\ pc' = "stats_ready"
    /\ UNCHANGED <<step, configVars, constructed, botVars, page, lastCall, detected,
                   waited, entered, loggedIn, failedAt, guardVars, statsFile, now,
                   increments, lastInc, teams_login, chatgpt_login, signals, wakes,
                   stopCalls, crashLogged>>
    /\ UNCHANGED <<traceVars, procVars>>

\* stats.increment(key)
Increment ==
    /\ pc = "stats_ready"
    /\ increments < MaxIncrements
    /\ \E key \in IncrementKeys, writable \in BOOLEAN :
          /\ stats' = increment(stats, key, now)
          /\ statsFile' = save_stats(increment(stats, key, now), statsFile, writable)
          /\ lastInc' = [key |-> key, before |-> stats, at |-> now]
    /\ increments' = increments + 1
    /\ UNCHANGED <<pc, step, configVars, constructed, botVars, page, lastCall, detected,
                   waited, entered, loggedIn, failedAt, guardVars, now, teams_login,
                   chatgpt_login, signals, wakes, stopCalls, crashLogged>>
    /\ UNCHANGED <<traceVars, procVars>>

\* The wall clock datetime.now() reads moves on by one unit.
Tick ==
    /\ pc = "stats_ready"
    /\ now < MaxTime
    /\ now' = now + 1
    /\ UNCHANGED <<pc, step, configVars, constructed, botVars, page, lastCall, detected,
                   waited, entered, loggedIn, failedAt, guardVars, stats, statsFile,
                   increments, lastInc, teams_login, chatgpt_login, signals, wakes,
                   stopCalls, crashLogged>>
    /\ UNCHANGED <<traceVars, procVars>>

\* The wall clock is set back by one unit: datetime.now() is naive local time,
\* which daylight saving's end or a clock correction moves back.
ClockBack ==
    /\ pc = "stats_ready"
    /\ now > 0
    /\ now' = now - 1
    /\ UNCHANGED <<pc, step, configVars, constructed, botVars, page, lastCall, detected,
                   waited, entered, loggedIn, failedAt, guardVars, stats, statsFile,
                   increments, lastInc, teams_login, chatgpt_login, signals, wakes,
                   stopCalls, crashLogged>>
    /\ UNCHANGED <<traceVars, procVars>>

StatsNext == NewBotStats \/ Increment \/ Tick \/ ClockBack

StatsSpec == StatsInit /\ [][StatsNext]_vars

\* ------------------------------------- the file operations, on their own
\* The errors opening, reading or parsing a file can raise, writing or
\* removing one can raise; "none" when it goes well.
ReadErrors == {"none", "PermissionError", "UnicodeDecodeError", "JSONDecodeError", "TypeError"}
WriteErrors == {"none", "PermissionError", "OSError"}

\* A constructed BotStats and ProcessManager, with whatever stats file and PID
\* file the directory holds and whatever runs under the other process id.
FilesInit ==
    /\ InitCommon
    /\ pc = "files"
    /\ configFile = NoFile
    /\ configAtStart = NoFile
    /\ now = 1
    /\ statsFile \in {NoFile} \cup {File(d) : d \in {f \in StatsFiles(now) : f["errors"] = 0}}
    /\ pidFile \in [exists : BOOLEAN, pid : {OwnPid, OtherPid}, form : PidForms]
    /\ pidFile.exists \/ (pidFile.pid = OtherPid /\ pidFile.form = "digits")
    /\ pidFile.pid = OwnPid => pidFile.form = "digits"
    /\ otherProcess \in ProcessKinds

\* The frame of a file operation.
FilesFrame ==
    UNCHANGED <<step, configVars, constructed, botVars, page, lastCall, detected, waited,
                entered, loggedIn, failedAt, running, handlers, pidWritten, now, increments,
                lastInc, teams_login, chatgpt_login, signals, wakes, stopCalls, crashLogged,
                traceVars, otherProcess>>

\* stats.load_stats()
LoadStats ==
    /\ pc = "files"
    /\ \E error \in (IF statsFile.exists THEN ReadErrors ELSE {"none"}) :
          /\ stats' = load_stats(IF stats = NoStats THEN BotStats(now, NoFile, TRUE) ELSE stats,
                                 statsFile, error = "none")
          /\ fileOp' = [op |-> "load_stats", error |-> error]
          /\ pc' = IF Outcome(error) = "raised" THEN "raised" ELSE pc
    /\ UNCHANGED <<statsFile, pidFile, already>>
    /\ FilesFrame

\* stats.save_stats()
SaveStats ==
    /\ pc = "files"
    /\ stats # NoStats
    /\ \E error \in WriteErrors :
          /\ stats' = WithUptime(stats, now)
          /\ statsFile' = save_stats(WithUptime(stats, now), statsFile, error = "none")
          /\ fileOp' = [op |-> "save_stats", error |-> error]
          /\ pc' = IF Outcome(error) = "raised" THEN "raised" ELSE pc
    /\ UNCHANGED <<pidFile, already>>
    /\ FilesFrame

\* process_manager.write_pid()
WritePid ==
    /\ pc = "files"
    /\ \E error \in WriteErrors :
          /\ pidFile' = write_pid(pidFile, error = "none")
          /\ fileOp' = [op |-> "write_pid", error |-> error]
          /\ pc' = IF Outcome(error) = "raised" THEN "raised" ELSE pc
    /\ UNCHANGED <<stats, statsFile, already>>
    /\ FilesFrame

\* process_manager.cleanup_pid()
CleanupPid ==
    /\ pc = "files"
    /\ \E error \in (IF pidFile.exists THEN WriteErrors ELSE {"none"}) :
          /\ pidFile' = cleanup_pid(pidFile, error = "none")
          /\ fileOp' = [op |-> "cleanup_pid", error |-> error]
          /\ pc' = IF Outcome(error) = "raised" THEN "raised" ELSE pc
    /\ UNCHANGED <<stats, statsFile, already>>
    /\ FilesFrame

\* ProcessManager.is_already_running()
IsAlreadyRunning ==
    /\ pc = "files"
    /\ \E error \in (IF pidFile.exists THEN ReadErrors \ {"JSONDecodeError", "TypeError"}
                                        ELSE {"none"}) :
          /\ already' = is_already_running(pidFile, error, otherProcess)
          /\ fileOp' = [op |-> "is_already_running", error |-> error]
          /\ pc' = IF is_already_running(pidFile, error, otherProcess) = "raised"
                   THEN "raised" ELSE pc
    /\ UNCHANGED <<stats, statsFile, pidFile>>
    /\ FilesFrame

FilesNext == LoadStats \/ SaveStats \/ WritePid \/ CleanupPid \/ IsAlreadyRunning

FilesSpec == FilesInit /\ [][FilesNext]_vars

\* ------------------------------------------------------------------- main
Next ==
    \/ LoadConfig
    \/ CheckMissing
    \/ ConstructBot
    \/ StartTeamsLogin
    \/ login_to_teams
    \/ AfterTeamsLogin
    \/ login_to_chatgpt
    \/ AfterChatgptLogin
    \/ IdleLoop
    \/ Stop
    \/ SignalHandler
    \/ PageChange

Spec == Init /\ [][Next]_vars

\* The scheduling of the single control thread: every step of main() that can
\* be taken is taken.  Signals and page changes are the environment's.
Program ==
    \/ LoadConfig
    \/ CheckMissing
    \/ ConstructBot
    \/ StartTeamsLogin
    \/ login_to_teams
    \/ AfterTeamsLogin
    \/ login_to_chatgpt
    \/ AfterChatgptLogin
    \/ IdleLoop
    \/ Stop

FairSpec == Spec /\ WF_vars(Program)

\* The runs that reach the logins: a configuration file with all four
\* credentials, with the skeleton's tunables or with more retries asked for,
\* and no PID file left behind.
LoginInit ==
    /\ Init
    /\ \E tun \in {"defaults", "more_retries"} :
          configFile = File(ConfigOf([f \in Range(CredentialFields) |-> "filled"], tun))
    /\ ~pidFile.exists

LoginSpec == LoginInit /\ [][Next]_vars /\ WF_vars(Program)

\* ================================================================ claims

\* No login has been attempted: no session, nothing typed, no result.
NoLoginAttempted ==
    /\ step = "none"
    /\ teams_login = "unset"
    /\ chatgpt_login = "unset"
    /\ \A s \in Sites : browser[s] = "none" /\ entered[s] = <<>> /\ detected[s] = "none"

\* C1, as claimed: a wake of the idle loop that follows a signal (the process
\* guard's flag is down) ends the loop, and teardown follows.
C1_SignalEndsIdleLoop ==
    [][(pc = "idle" /\ ~running /\ wakes' = wakes + 1) => pc' = "stop"]_vars

\* C2, as claimed: when main() has returned after constructing the bot and
\* running teardown, the PID file written at start-up is gone.
C2_PidFileRemoved ==
    (pc = "done" /\ constructed /\ stopCalls > 0 /\ pidWritten) => ~pidFile.exists

\* The credential fields that are absent from the configuration or empty in it.
AbsentOrEmpty ==
    {f \in Range(CredentialFields) :
        f \notin DOMAIN configFile.data \/ configFile.data[f] = Str("")}

\* C3: once main() has checked the configuration, what it reported is exactly
\* the absent or empty credential fields; if there are any, main() has returned
\* with no bot constructed and no login attempted; if there are none, nothing
\* was reported and main() goes on to the bot.
C3_MissingFieldsReported ==
    pc \notin {"load_config", "check_missing"} =>
        /\ Range(reported) = AbsentOrEmpty
        /\ Len(reported) = Cardinality(AbsentOrEmpty)
        /\ AbsentOrEmpty # {} => (pc = "done" /\ ~constructed /\ NoLoginAttempted)
        /\ AbsentOrEmpty = {} => (reported = <<>> /\ (constructed \/ pc = "construct"))

\* C3's case: two of the four fields are missing, and main() has returned.
C3_Witness ==
    /\ pc = "done"
    /\ reported = <<"teams_password", "chatgpt_email">>
    /\ ~constructed

\* C4: with no configuration file at start-up, after load_config the file
\* exists and holds empty credentials and the default tunables, and main() is
\* at its check or has returned, with no bot and no login.
C4_SkeletonCreated ==
    (~configAtStart.exists /\ pc # "load_config") =>
        /\ configFile.exists
        /\ configFile.data =
              [teams_email |-> Str(""), teams_password |-> Str(""),
               chatgpt_email |-> Str(""), chatgpt_password |-> Str(""),
               bot_trigger |-> Str("@bot"), check_interval |-> Num(10),
               headless |-> Bool(FALSE), max_retries |-> Num(3),
               retry_delay |-> Num(30)]
        /\ pc \in {"check_missing", "done"}
        /\ ~constructed
        /\ NoLoginAttempted

\* C4's case: there was no file, and main() has returned.
C4_Witness == ~configAtStart.exists /\ pc = "done" /\ configFile.exists

\* A step in which a login called detect_captcha and something came of it.
DetectStep ==
    /\ step \in {"detect_captcha", "captcha_wait"}
    /\ <<step, lastCall, detected, waited>>' # <<step, lastCall, detected, waited>>

\* C5: a detector call whose inspection did not fail returns true exactly when
\* the page held one of the three markers, whatever else it held; the call
\* leaves the page, the sessions, the bot's flags, the guard, the stats and the
\* files as they were; and on the same markers it returns the same result.
C5_DetectCaptcha ==
    /\ [](lastCall.site # "none" /\ ~lastCall.raised =>
            (lastCall.result <=> lastCall.markers # {}))
    /\ [][DetectStep =>
            UNCHANGED <<pc, page, botVars, entered, loggedIn, failedAt, guardVars,
                        statsVars, configVars, teams_login, chatgpt_login>>]_vars
    /\ [][(lastCall.site # "none" /\ lastCall'.site = lastCall.site
           /\ lastCall'.markers = lastCall.markers
           /\ ~lastCall.raised /\ ~lastCall'.raised)
          => lastCall'.result = lastCall.result]_vars

\* C5's case: the only marker is div.g-recaptcha, among other content, and the
\* detector reported a CAPTCHA.
C5_Witness ==
    /\ lastCall.site = "teams"
    /\ ~lastCall.raised
    /\ lastCall.markers = {"div.g-recaptcha"}
    /\ page = [markers |-> {"div.g-recaptcha"}, other |-> TRUE]
    /\ lastCall.result

\* The first step of filling in the login form.
FormStart(s) == IF s = "teams" THEN "email" ELSE "login_button"

\* C6: credentials have been typed only if the login's latest detector call
\* reported clear; a CAPTCHA at the first check sends the login to the wait; a
\* poll that reports a CAPTCHA keeps it there with nothing typed; and the wait
\* is left only on a clear report, for the form.
C6_CaptchaGatesCredentials ==
    /\ [](\A s \in Sites : entered[s] # <<>> => detected[s] = "clear")
    /\ [][\A s \in Sites : pc = LoginPc(s) =>
            /\ (step = "detect_captcha" /\ step' # step) =>
                  step' = IF detected'[s] = "captcha" THEN "captcha_wait" ELSE FormStart(s)
            /\ (step = "captcha_wait" /\ detected'[s] = "captcha") =>
                  (step' = "captcha_wait" /\ entered' = entered)
            /\ (step = "captcha_wait" /\ step' # step) =>
                  (detected'[s] = "clear" /\ step' = FormStart(s) /\ pc' = pc)]_vars

\* C6's case: the ChatGPT login waited on a CAPTCHA, the detector then reported
\* clear, and both credentials were typed.
C6_Witness ==
    /\ waited["chatgpt"]
    /\ detected["chatgpt"] = "clear"
    /\ Len(entered["chatgpt"]) = 2

\* What a site's login returned to start().
LoginResult(s) == IF s = "teams" THEN teams_login ELSE chatgpt_login

\* C7: a login in which a step raised has returned False to start(), and no
\* crash of start() was logged; a login returned True only with the post-login
\* marker found.
C7_LoginFailureReturnsFalse ==
    \A s \in Sites :
        /\ failedAt[s] # "none" =>
              (LoginResult(s) = "False" /\ ~crashLogged /\ ~loggedIn[s])
        /\ LoginResult(s) = "True" => (loggedIn[s] /\ failedAt[s] = "none")

\* C7's case: the ChatGPT login timed out waiting for its post-login marker.
C7_Witness ==
    /\ failedAt["chatgpt"] = "marker"
    /\ chatgpt_login = "False"
    /\ teams_login = "True"

\* C8: is_running is true, and the bot in the idle loop, only with both logins
\* returned True and both sessions logged in and open; is_running becomes true
\* only on entering the idle loop; and start() enters the idle loop exactly
\* when both logins returned True.
C8_IdleOnlyAfterBothLogins ==
    /\ []((is_running \/ pc = "idle") =>
            /\ teams_login = "True" /\ chatgpt_login = "True"
            /\ \A s \in Sites : loggedIn[s] /\ browser[s] = "open")
    /\ [](pc = "idle" => is_running)
    /\ [][(is_running' /\ ~is_running) => (pc = "chatgpt_returned" /\ pc' = "idle")]_vars
    /\ [][(pc = "chatgpt_returned" /\ pc' # pc) =>
            ((teams_login = "True" /\ chatgpt_login = "True")
               <=> (is_running' /\ pc' = "idle"))]_vars

\* C8's case: the bot is in the idle loop and has woken once.
C8_Witness == pc = "idle" /\ is_running /\ wakes = 1

\* C9, as claimed: when main() has ended after a failed login, the idle loop was
\* never entered and no session that was created is still open without a quit.
C9_FailedLoginClosesSessions ==
    (pc \in {"done", "raised"} /\ (teams_login = "False" \/ chatgpt_login = "False")) =>
        /\ wakes = 0
        /\ \A s \in Sites : browser[s] # "open"

\* An increment() call happened in this step.
Incremented == increments' = increments + 1

\* C10, as claimed: an increment leaves no counter lower, raises its own by
\* one, and leaves last_activity newer than it was.
C10_NewerTimestamp ==
    [][Incremented =>
         /\ \A c \in Counters : stats'[c] >= stats[c]
         /\ stats'[lastInc'.key] = Get(stats, lastInc'.key, 0) + 1
         /\ stats["last_activity"] # NoActivity =>
               fromisoformat(stats'["last_activity"]) > fromisoformat(stats["last_activity"])]_vars

\* C10, amended: an increment leaves no counter lower, raises its own by one,
\* and sets last_activity to the clock's reading at the call, which is newer
\* than the value before exactly when the clock reads later than that value.
C10_TimestampIsClockReading ==
    [][Incremented =>
         /\ \A c \in Counters : stats'[c] >= stats[c]
         /\ stats'[lastInc'.key] = Get(stats, lastInc'.key, 0) + 1
         /\ stats'["last_activity"] # NoActivity
         /\ fromisoformat(stats'["last_activity"]) = now
         /\ stats["last_activity"] # NoActivity =>
               (fromisoformat(stats'["last_activity"]) > fromisoformat(stats["last_activity"])
                  <=> now > fromisoformat(stats["last_activity"]))]_vars

\* C10's case: a second increment of the same counter at a clock reading no
\* later than the first's.
C10_Witness ==
    /\ increments = 2
    /\ lastInc.key = "errors"
    /\ stats["errors"] = lastInc.before["errors"] + 1
    /\ lastInc.before["last_activity"] # NoActivity
    /\ fromisoformat(stats["last_activity"]) <= fromisoformat(lastInc.before["last_activity"])

\* C11: a failure reading or writing the stats file or the PID file, in
\* load_stats, save_stats, write_pid, cleanup_pid or is_already_running, never
\* leaves the operation as an exception: the call that met the error returns
\* and the caller goes on where it was.
C11_PersistenceErrorsSwallowed ==
    /\ [](pc # "raised" /\ already # "raised")
    /\ [][(fileOp' # fileOp /\ fileOp'.error # "none") => pc' = pc]_vars

\* Each kind of operation has met an error and returned: here, a stats file
\* that does not parse.
C11_Witness ==
    /\ pc = "files"
    /\ fileOp = [op |-> "load_stats", error |-> "JSONDecodeError"]
    /\ statsFile.exists
    /\ stats # NoStats

\* C19: is_already_running returns true exactly when the PID file exists, is
\* read, holds a number, and the process under that number is alive with a
\* command line naming the bot; a dead or unrelated process, a file that cannot
\* be read or parsed, or no file give false; it never raises.
C19_AlreadyRunningOnlyForLiveBot ==
    fileOp.op = "is_already_running" =>
        /\ already \in {"True", "False"}
        /\ already = "True" <=>
              /\ pidFile.exists
              /\ fileOp.error = "none"
              /\ pidFile.form \in {"digits", "padded"}
              /\ ProcessOf(pidFile.pid, otherProcess) = "bot"

\* A stale PID file: the recorded id now belongs to a live, unrelated process.
C19_Witness ==
    /\ fileOp = [op |-> "is_already_running", error |-> "none"]
    /\ pidFile = [exists |-> TRUE, pid |-> OtherPid, form |-> "padded"]
    /\ otherProcess = "other"
    /\ already = "False"

\* The handle TeamsBot keeps for a site's session.
Handle(s) == IF s = "teams" THEN teams_driver ELSE chatgpt_driver

\* C12, as claimed: when stop() has ended, by returning or by raising, every
\* session whose handle is set has had its quit() called, whether the other
\* session's quit() raised or not.
C12_EachSessionCloseAttempted ==
    (stopCalls > 0 /\ pc \in {"done", "raised"}) =>
        \A s \in Sites : Handle(s) # "None" => browser[s] \in {"closed", "close_failed"}

\* C13, as claimed: after a signal delivered while a login was running, the
\* bot does not go on idling once the login has ended: the idle loop never
\* finishes a sleep and sleeps again.
C13_SignalDuringLoginStopsBot == signalInLogin => wakes = 0

\* C14: a detector call in which a page inspection raised returns false, and
\* the exception stays inside it: the login that made the call goes on to the
\* first step of its form, neither waiting nor failing.
C14_DetectorFailsOpen ==
    /\ [](lastCall.raised => ~lastCall.result)
    /\ [][\A s \in Sites :
            (pc = LoginPc(s) /\ DetectStep /\ lastCall'.raised) =>
                /\ step' = FormStart(s)
                /\ detected'[s] = "clear"
                /\ pc' = pc
                /\ failedAt' = failedAt]_vars

\* C14's case: the page holds a CAPTCHA marker, the inspection raised before
\* finding it, and the Teams login typed both credentials without waiting.
C14_Witness ==
    /\ lastCall.site = "teams"
    /\ lastCall.raised
    /\ lastCall.markers # {}
    /\ ~waited["teams"]
    /\ Len(entered["teams"]) = 2

\* C15: the ChatGPT login is begun, and its session created, only when the
\* Teams login has returned True, and begins nowhere but at that return; while
\* the Teams login runs nothing of the ChatGPT login exists; and after a Teams
\* login that returned False there is never a ChatGPT session or login.
C15_LoginsInOrder ==
    /\ []((pc = "login_to_chatgpt" \/ attempts["chatgpt"] > 0 \/ created["chatgpt"] > 0
             \/ browser["chatgpt"] # "none" \/ chatgpt_login # "unset")
          => (teams_login = "True" /\ pc # "login_to_teams"))
    /\ [](teams_login = "False" =>
             /\ browser["chatgpt"] = "none"
             /\ chatgpt_driver = "None"
             /\ attempts["chatgpt"] = 0
             /\ pc \notin {"login_to_teams", "login_to_chatgpt", "chatgpt_returned", "idle"})
    /\ [][(pc' = "login_to_chatgpt" /\ pc # "login_to_chatgpt") =>
             (pc = "teams_returned" /\ teams_login = "True")]_vars

\* C15's case: the Teams login has ended in success and the ChatGPT login runs
\* with its session open.
C15_Witness ==
    /\ pc = "login_to_chatgpt"
    /\ teams_login = "True"
    /\ loggedIn["teams"]
    /\ browser["chatgpt"] = "open"

\* C16: in one run each site's login is begun at most once and at most one
\* browser session is started per site, whatever max_retries and retry_delay
\* the configuration holds.
C16_NoLoginRetry ==
    \A s \in Sites : attempts[s] <= 1 /\ created[s] <= 1

\* C16's case: the configuration asks for five retries, the Teams login failed
\* with its session started, and main() has ended after that single attempt.
C16_Witness ==
    /\ pc = "done"
    /\ Get(config, "max_retries", Num(3)) = Num(5)
    /\ teams_login = "False"
    /\ attempts["teams"] = 1
    /\ created["teams"] = 1

\* Where main() is while start() runs.
InStart ==
    {"start", "login_to_teams", "teams_returned", "login_to_chatgpt", "chatgpt_returned",
     "idle"}

\* C17: once the bot is constructed, whichever way start() ends (it returns,
\* a login fails, the run loop raises) stop() is entered next, and it is
\* entered once in all; main() has not ended before; and an exception of the
\* run loop does not leave main(): if main() ends with an exception, it is one
\* a quit() of stop() raised.
C17_StopExactlyOnce ==
    /\ [](stopCalls <= 1)
    /\ []((constructed /\ pc \in {"done", "raised"}) => stopCalls = 1)
    /\ [](pc = "raised" => \E s \in Sites : browser[s] = "close_failed")
    /\ [][(pc \in InStart /\ pc' \notin InStart) => (pc' = "stop" /\ stopCalls = 0)]_vars
    /\ [][(crashLogged' /\ ~crashLogged) => pc' = "stop"]_vars
    /\ [][(pc = "stop" /\ pc' # pc) =>
             (stopCalls' = stopCalls + 1 /\ pc' \in {"done", "raised"})]_vars

\* C17's case: the run loop raised, main() logged the crash, ran stop() once
\* and returned.
C17_Witness ==
    /\ crashLogged
    /\ teams_login = "True"
    /\ chatgpt_login = "True"
    /\ stopCalls = 1
    /\ pc = "done"

\* C20: the delivery of a signal clears the guard's running flag and leaves
\* the bot's is_running flag, both session handles and sessions, the stats
\* record, the stats file, the PID file and main()'s position as they were;
\* and is_running goes from true to false only in stop().
C20_SignalTouchesGuardOnly ==
    /\ [][signals' # signals =>
            /\ ~running'
            /\ UNCHANGED <<is_running, teams_driver, chatgpt_driver, browser, stats,
                           statsFile, pidFile, pc, step>>]_vars
    /\ [][(is_running /\ ~is_running') =>
            (pc = "stop" /\ stopCalls' = stopCalls + 1)]_vars

\* C20's case: a signal came while the bot idled; the guard's flag is down and
\* the bot's flag is still up.
C20_Witness ==
    /\ pc = "idle"
    /\ signals = 1
    /\ ~signalInLogin
    /\ ~running
    /\ is_running

\* C18: a login whose detector has reported clear ends, returning to start();
\* the CAPTCHA wait is left only by a detector call of that login that
\* reported clear, never by a timeout; and while the login stays in the wait
\* nothing is typed, no marker is found, no login returns and main() stays
\* where it is.
C18_LoginEndsOnceClear ==
    /\ \A s \in Sites : (pc = LoginPc(s) /\ detected[s] = "clear") ~> (pc # LoginPc(s))
    /\ [][\A s \in Sites :
            (pc = LoginPc(s) /\ step = "captcha_wait" /\ step' # step) =>
                (lastCall'.site = s /\ ~lastCall'.result /\ detected'[s] = "clear")]_vars
    /\ [][(step = "captcha_wait" /\ step' = step) =>
            UNCHANGED <<pc, entered, loggedIn, failedAt, teams_login, chatgpt_login,
                        browser, is_running>>]_vars

\* C18's case: the Teams login waited on a CAPTCHA, the detector then reported
\* clear on a page without markers, and the login has returned.
C18_Witness ==
    /\ pc = "teams_returned"
    /\ waited["teams"]
    /\ detected["teams"] = "clear"
    /\ lastCall = [site |-> "teams", markers |-> {}, raised |-> FALSE, result |-> FALSE]

====
